---- MODULE Spec2Model ----
(***************************************************************************)
(* Model of map_utils.py: the legend coordination scripts emitted by       *)
(* ToggleableLayerColorbar, ToggleableEsriLegend and ToggleableGIBSLegend, *)
(* the capability fetch get_gibs_legend_url and the ESRI legend builder    *)
(* ToggleableEsriLegend._build_legend_html.                                *)
(***************************************************************************)
EXTENDS Integers, Sequences, FiniteSets, TLC

(***************************************************************************)
(* Bounds                                                                  *)
(***************************************************************************)
\* number of legend objects constructed and registered on one page
MaxLegends == 3
\* the layer objects the map fires events for (opaque handles of the host
\* library; the handlers only compare them with ===)
Layers == {"layerA", "layerB"}
Kinds == {"colorbar", "esri", "gibs"}
Undefined == "undefined"
NoLayer == "none"

VARIABLES
    counter,    \* the class-level _counter of each legend class
    legends,    \* the legend scripts run so far, in order: [kind, name, layer];
                \* position i is also the i-th pair of observers installed by map.on
    registry,   \* window._layerColorbarLegends / _layerEsriLegends / _layerGIBSLegends
    isOnMap,    \* legend i's _isOnMap field
    attached,   \* whether control i is attached to the map (Leaflet's control._map)
    calls,      \* the remove()/addTo() calls made while handling the last event
    lastEvent,  \* the last event the map fired: [type, layer]
    before,     \* isOnMap as it was when the last event was fired
    present,    \* per layer: its latest event is a layeradd
    lastAdded,  \* [layer, n]: the layer of the latest layeradd event and the
                \* number of legends registered when it was fired
    stack       \* the running map.fire calls, innermost last, each with the
                \* position of its running observer (statement granularity)

coordVars == <<counter, legends, registry, isOnMap, attached, calls, lastEvent,
               before, present, lastAdded>>

VARIABLES
    gibsIn,     \* a call get_gibs_legend_url(layer_name) and what the server
                \* will answer: [layer_name, net, status, body]
    gibsOut,    \* how the call ended: [state, value, error, requests]
    esriIn,     \* a ToggleableEsriLegend under construction: [legend_json, title]
    esriOut     \* its legend_html, as the sequence of pieces the f-strings append

pureVars == <<gibsIn, gibsOut, esriIn, esriOut>>

vars == <<coordVars, stack, pureVars>>

None == "None"
Absent == "absent"
Pending == [state |-> "pending"]

(***************************************************************************)
(* Construction and registration                                           *)
(***************************************************************************)
\* the prefix of legend_var_name of each class
Prefix(kind) ==
    CASE kind = "colorbar" -> "layer_legend_"
      [] kind = "esri" -> "esri_legend_"
      [] kind = "gibs" -> "gibs_legend_"

\* a name that leaves the counter out
LegendVarNameWithoutCounter(kind, n) == <<Prefix(kind), 1>>

\* f"{prefix}{_counter}"
LegendVarName(kind, n) == <<Prefix(kind), n>>

\* window._layerXLegends[key] = {legend, layer}: assignment to an existing key
\* overwrites it in place, a new key goes last in for..in order
SetEntry(part, key, entry) ==
    IF \E i \in 1..Len(part) : part[i].key = key
    THEN [i \in 1..Len(part) |-> IF part[i].key = key THEN entry ELSE part[i]]
    ELSE Append(part, entry)

\* a script that resets its registry every time it runs
InitPartitionAlways(part) == <<>>

\* if (!window._layerXLegends) { window._layerXLegends = {}; }
InitPartition(part) == IF part = Undefined THEN <<>> ELSE part

\* __init__ (counter, legend_var_name) followed by the rendered script up to
\* the two map.on calls
Register(kind, layer) ==
    /\ Len(legends) < MaxLegends
    /\ stack = <<>>
    /\ LET n == counter[kind] + 1
           name == LegendVarName(kind, n)
           id == Len(legends) + 1
           part == InitPartition(registry[kind])
       IN /\ counter' = [counter EXCEPT ![kind] = n]
          /\ legends' = Append(legends, [kind |-> kind, name |-> name, layer |-> layer])
          /\ registry' = [registry EXCEPT ![kind] =
                 SetEntry(part, name, [key |-> name, legend |-> id, layer |-> layer])]
          /\ isOnMap' = Append(isOnMap, FALSE)
          /\ attached' = Append(attached, FALSE)
    /\ calls' = <<>>
    /\ lastEvent' = [type |-> "register", layer |-> layer]
    /\ before' = isOnMap
    /\ UNCHANGED <<present, lastAdded, stack, pureVars>>

(***************************************************************************)
(* The event handlers                                                      *)
(***************************************************************************)
\* entry.legend.remove(); entry.legend._isOnMap = false
Detach(st, id) ==
    [isOnMap |-> [st.isOnMap EXCEPT ![id] = FALSE],
     attached |-> [st.attached EXCEPT ![id] = FALSE],
     calls |-> Append(st.calls, <<"remove", id>>)]

\* legend.addTo(map); legend._isOnMap = true
Attach(st, id) ==
    [isOnMap |-> [st.isOnMap EXCEPT ![id] = TRUE],
     attached |-> [st.attached EXCEPT ![id] = TRUE],
     calls |-> Append(st.calls, <<"addTo", id>>)]

\* a loop body without the _isOnMap test
ScanEntryUnguarded(st, entry) == Detach(st, entry.legend)

\* one iteration of a for..in loop over a registry partition
ScanEntry(st, entry) ==
    IF st.isOnMap[entry.legend] THEN Detach(st, entry.legend) ELSE st

RECURSIVE ScanFrom(_, _, _)
ScanFrom(st, part, i) ==
    IF i > Len(part) THEN st ELSE ScanFrom(ScanEntry(st, part[i]), part, i + 1)

\* for (var key in window._layerXLegends) { ... }; for..in over undefined
\* iterates nothing
ScanPartition(st, k) ==
    IF registry[k] = Undefined THEN st ELSE ScanFrom(st, registry[k], 1)

\* the partitions a layeradd handler of each class scans, in order
ColorbarScan == <<"colorbar">>
EsriScan == <<"colorbar", "esri">>
GibsScan == <<"colorbar", "esri", "gibs">>

\* observers that leave the registry of their own class unscanned
ScanOrderWithoutOwn(kind) ==
    CASE kind = "colorbar" -> <<>>
      [] kind = "esri" -> <<"colorbar">>
      [] kind = "gibs" -> <<"colorbar", "esri">>

ScanOrder(kind) ==
    CASE kind = "colorbar" -> ColorbarScan
      [] kind = "esri" -> EsriScan
      [] kind = "gibs" -> GibsScan

\* scripts that test no registry before looping over it
GuardedNone(kind) == {}

\* the partitions a handler tests with typeof ... !== 'undefined' before its
\* loop; the loop over the class's own registry is not tested
Guarded(kind) ==
    CASE kind = "colorbar" -> {}
      [] kind = "esri" -> {"colorbar"}
      [] kind = "gibs" -> {"colorbar", "esri"}

RECURSIVE ScanAll(_, _, _)
ScanAll(st, order, j) ==
    IF j > Len(order) THEN st ELSE ScanAll(ScanPartition(st, order[j]), order, j + 1)

\* an observer that lost its guard
TargetsAnyLayer(id, layer) == TRUE

\* if (e.layer === targetLayer)
Targets(id, layer) == legends[id].layer = layer

\* the layeradd observer of legend id
OnLayerAdd(st, id, layer) ==
    IF Targets(id, layer)
    THEN Attach(ScanAll(st, ScanOrder(legends[id].kind), 1), id)
    ELSE st

\* a layerremove observer that forgets to detach
OnLayerRemoveKeeps(st, id, layer) == st

\* a layerremove observer without the _isOnMap test
OnLayerRemoveUnguarded(st, id, layer) ==
    IF Targets(id, layer) THEN Detach(st, id) ELSE st

\* the layerremove observer of legend id
OnLayerRemove(st, id, layer) ==
    IF Targets(id, layer) /\ st.isOnMap[id] THEN Detach(st, id) ELSE st

\* map.fire: the observers run in the order they were installed
RECURSIVE Dispatch(_, _, _, _)
Dispatch(st, type, layer, id) ==
    IF id > Len(legends) THEN st
    ELSE Dispatch(IF type = "layeradd" THEN OnLayerAdd(st, id, layer)
                  ELSE OnLayerRemove(st, id, layer),
                  type, layer, id + 1)

Now == [isOnMap |-> isOnMap, attached |-> attached, calls |-> <<>>]

\* what the page is after the map fired the event
Fire(st, type, layer) == Dispatch([st EXCEPT !.calls = <<>>], type, layer, 1)

LayerAdd(layer) ==
    /\ LET st == Fire(Now, "layeradd", layer)
       IN /\ isOnMap' = st.isOnMap
          /\ attached' = st.attached
          /\ calls' = st.calls
    /\ lastEvent' = [type |-> "layeradd", layer |-> layer]
    /\ before' = isOnMap
    /\ present' = [present EXCEPT ![layer] = TRUE]
    /\ lastAdded' = [layer |-> layer, n |-> Len(legends)]
    /\ UNCHANGED <<counter, legends, registry, stack, pureVars>>

LayerRemove(layer) ==
    /\ LET st == Fire(Now, "layerremove", layer)
       IN /\ isOnMap' = st.isOnMap
          /\ attached' = st.attached
          /\ calls' = st.calls
    /\ lastEvent' = [type |-> "layerremove", layer |-> layer]
    /\ before' = isOnMap
    /\ present' = [present EXCEPT ![layer] = FALSE]
    /\ UNCHANGED <<counter, legends, registry, lastAdded, stack, pureVars>>

\* no call and no construction in progress
PureIdle ==
    /\ gibsIn = None
    /\ gibsOut = Pending
    /\ esriIn = None
    /\ esriOut = Pending

\* a page on which no legend script has run yet
CoordInit ==
    /\ counter = [k \in Kinds |-> 0]
    /\ legends = <<>>
    /\ registry = [k \in Kinds |-> Undefined]
    /\ isOnMap = <<>>
    /\ attached = <<>>
    /\ calls = <<>>
    /\ lastEvent = [type |-> "none", layer |-> NoLayer]
    /\ before = <<>>
    /\ present = [l \in Layers |-> FALSE]
    /\ lastAdded = [layer |-> NoLayer, n |-> 0]
    /\ stack = <<>>

Init == CoordInit /\ PureIdle

Next ==
    \/ \E k \in Kinds, l \in Layers : Register(k, l)
    \/ \E l \in Layers : LayerAdd(l)
    \/ \E l \in Layers : LayerRemove(l)

Spec == Init /\ [][Next]_vars

(***************************************************************************)
(* The same handlers, one statement at a time                              *)
(***************************************************************************)
Top == stack[Len(stack)]
SetTop(f) == [stack EXCEPT ![Len(stack)] = f]
At(phase) == stack # <<>> /\ Top.phase = phase
Running == Top.h

\* map.fire(type, {layer}): the first observer is about to test its guard;
\* start and entry remember the flags when the event was fired and when the
\* running layeradd observer passed its guard
FireEvent(type, layer) ==
    /\ stack = <<>>
    /\ stack' = <<[type |-> type, layer |-> layer, h |-> 1, phase |-> "guard",
                   j |-> 1, i |-> 1, entry |-> isOnMap, nested |-> FALSE,
                   start |-> [isOnMap |-> isOnMap, attached |-> attached, calls |-> <<>>]]>>
    /\ UNCHANGED <<coordVars, pureVars>>

\* if (e.layer === targetLayer) is false: on to the next observer
HandlerSkip ==
    /\ At("guard") /\ Running <= Len(legends)
    /\ ~Targets(Running, Top.layer)
    /\ stack' = SetTop([Top EXCEPT !.h = @ + 1])
    /\ UNCHANGED <<coordVars, pureVars>>

\* a layeradd observer passes its guard and enters its first for..in loop
AddEnter ==
    /\ At("guard") /\ Running <= Len(legends)
    /\ Top.type = "layeradd" /\ Targets(Running, Top.layer)
    /\ stack' = SetTop([Top EXCEPT !.phase = "scan", !.j = 1, !.i = 1,
                                    !.entry = isOnMap, !.nested = FALSE])
    /\ UNCHANGED <<coordVars, pureVars>>

ScanOf(f) == ScanOrder(legends[f.h].kind)
PartOf(f) == registry[ScanOf(f)[f.j]]

\* a loop over one partition ends (or the partition is undefined)
ScanNextPartition ==
    /\ At("scan") /\ Top.j <= Len(ScanOf(Top))
    /\ PartOf(Top) = Undefined \/ Top.i > Len(PartOf(Top))
    /\ stack' = SetTop([Top EXCEPT !.j = @ + 1, !.i = 1])
    /\ UNCHANGED <<coordVars, pureVars>>

\* if (entry.legend._isOnMap) is false
ScanPass ==
    /\ At("scan") /\ Top.j <= Len(ScanOf(Top))
    /\ PartOf(Top) # Undefined /\ Top.i <= Len(PartOf(Top))
    /\ ~isOnMap[PartOf(Top)[Top.i].legend]
    /\ stack' = SetTop([Top EXCEPT !.i = @ + 1])
    /\ UNCHANGED <<coordVars, pureVars>>

\* if (entry.legend._isOnMap) entry.legend.remove();
ScanDetach ==
    /\ At("scan") /\ Top.j <= Len(ScanOf(Top))
    /\ PartOf(Top) # Undefined /\ Top.i <= Len(PartOf(Top))
    /\ isOnMap[PartOf(Top)[Top.i].legend]
    /\ attached' = [attached EXCEPT ![PartOf(Top)[Top.i].legend] = FALSE]
    /\ stack' = SetTop([Top EXCEPT !.phase = "clearFlag"])
    /\ UNCHANGED <<counter, legends, registry, isOnMap, calls, lastEvent, before,
                   present, lastAdded, pureVars>>

\* entry.legend._isOnMap = false;
ScanClear ==
    /\ At("clearFlag")
    /\ isOnMap' = [isOnMap EXCEPT ![PartOf(Top)[Top.i].legend] = FALSE]
    /\ stack' = SetTop([Top EXCEPT !.phase = "scan", !.i = @ + 1])
    /\ UNCHANGED <<counter, legends, registry, attached, calls, lastEvent, before,
                   present, lastAdded, pureVars>>

\* legend.addTo(map);
AddTo ==
    /\ At("scan") /\ Top.j > Len(ScanOf(Top))
    /\ attached' = [attached EXCEPT ![Running] = TRUE]
    /\ stack' = SetTop([Top EXCEPT !.phase = "setFlag"])
    /\ UNCHANGED <<counter, legends, registry, isOnMap, calls, lastEvent, before,
                   present, lastAdded, pureVars>>

\* legend._isOnMap = true; the observer returns
SetFlag ==
    /\ At("setFlag")
    /\ isOnMap' = [isOnMap EXCEPT ![Running] = TRUE]
    /\ stack' = SetTop([Top EXCEPT !.phase = "guard", !.h = @ + 1])
    /\ UNCHANGED <<counter, legends, registry, attached, calls, lastEvent, before,
                   present, lastAdded, pureVars>>

\* a layerremove observer passes its guard; its legend is not on the map
RemoveSkip ==
    /\ At("guard") /\ Running <= Len(legends)
    /\ Top.type = "layerremove" /\ Targets(Running, Top.layer)
    /\ ~isOnMap[Running]
    /\ stack' = SetTop([Top EXCEPT !.h = @ + 1])
    /\ UNCHANGED <<coordVars, pureVars>>

\* a layerremove observer passes both guards: legend.remove();
RemoveDetach ==
    /\ At("guard") /\ Running <= Len(legends)
    /\ Top.type = "layerremove" /\ Targets(Running, Top.layer)
    /\ isOnMap[Running]
    /\ attached' = [attached EXCEPT ![Running] = FALSE]
    /\ stack' = SetTop([Top EXCEPT !.phase = "rmFlag"])
    /\ UNCHANGED <<counter, legends, registry, isOnMap, calls, lastEvent, before,
                   present, lastAdded, pureVars>>

\* legend._isOnMap = false; the observer returns
RemoveClear ==
    /\ At("rmFlag")
    /\ isOnMap' = [isOnMap EXCEPT ![Running] = FALSE]
    /\ stack' = SetTop([Top EXCEPT !.phase = "guard", !.h = @ + 1])
    /\ UNCHANGED <<counter, legends, registry, attached, calls, lastEvent, before,
                   present, lastAdded, pureVars>>

\* every observer has run
HandlersDone ==
    /\ At("guard") /\ Running > Len(legends)
    /\ stack' = SetTop([Top EXCEPT !.phase = "done"])
    /\ UNCHANGED <<coordVars, pureVars>>

\* map.fire returns
Return ==
    /\ At("done")
    /\ stack' = SubSeq(stack, 1, Len(stack) - 1)
    /\ UNCHANGED <<coordVars, pureVars>>

NextSteps ==
    \/ \E k \in Kinds, l \in Layers : Register(k, l)
    \/ \E l \in Layers : FireEvent("layeradd", l)
    \/ \E l \in Layers : FireEvent("layerremove", l)
    \/ HandlerSkip
    \/ AddEnter
    \/ ScanNextPartition
    \/ ScanPass
    \/ ScanDetach
    \/ ScanClear
    \/ AddTo
    \/ SetFlag
    \/ RemoveSkip
    \/ RemoveDetach
    \/ RemoveClear
    \/ HandlersDone
    \/ Return

SpecSteps == Init /\ [][NextSteps]_vars

\* the host fires layeradd for another legend's layer from inside a running
\* layeradd observer, between the start of its scan and its last statement;
\* the observers of the inner event run to completion before the outer
\* observer resumes (nested marks the interrupted observer; one inner event
\* per observer run)
NestedFire(layer) ==
    /\ Len(stack) = 1 /\ ~Top.nested
    /\ Top.type = "layeradd" /\ Top.phase \in {"scan", "clearFlag", "setFlag"}
    /\ layer # Top.layer
    /\ \E i \in 1..Len(legends) : Targets(i, layer)
    /\ stack' = Append(SetTop([Top EXCEPT !.nested = TRUE]),
                       [type |-> "layeradd", layer |-> layer, h |-> 1,
                        phase |-> "guard", j |-> 1, i |-> 1, entry |-> isOnMap,
                        nested |-> FALSE,
                        start |-> [isOnMap |-> isOnMap, attached |-> attached,
                                   calls |-> <<>>]])
    /\ UNCHANGED <<coordVars, pureVars>>

NextReentrant ==
    \/ NextSteps
    \/ \E l \in Layers : NestedFire(l)

SpecReentrant == Init /\ [][NextReentrant]_vars

\* the statement-level run of an event ends where Fire says it ends
StepsAgreeWithFire ==
    At("done") =>
        LET st == Fire(Top.start, Top.type, Top.layer)
        IN isOnMap = st.isOnMap /\ attached = st.attached

(***************************************************************************)
(* get_gibs_legend_url                                                     *)
(***************************************************************************)
\* number of Layer elements in a capability document
MaxLayers == 3

\* an XML element: tag, text, the xlink:href attribute (Absent when the
\* element has none) and the child elements in document order
Elem(tag, text, href, kids) ==
    [tag |-> tag, text |-> text, href |-> href, kids |-> kids]

\* Element.iter() without the element itself: the descendants in document order
RECURSIVE DescendantsOf(_)
DescendantsOf(kids) ==
    IF kids = <<>> THEN <<>>
    ELSE <<Head(kids)>> \o DescendantsOf(Head(kids).kids) \o DescendantsOf(Tail(kids))

\* e.findall('.//wms:tag', ns)
FindAll(e, tag) == SelectSeq(DescendantsOf(e.kids), LAMBDA d : d.tag = tag)

\* e.findall('wms:tag', ns): the children with the tag
Children(e, tag) == SelectSeq(e.kids, LAMBDA d : d.tag = tag)

RECURSIVE ChildrenOfAll(_, _)
ChildrenOfAll(es, tag) ==
    IF es = <<>> THEN <<>>
    ELSE Children(Head(es), tag) \o ChildrenOfAll(Tail(es), tag)

\* find returns the first match or None: <<>> stands for None, <<e>> for e
First(es) == IF es = <<>> THEN <<>> ELSE <<Head(es)>>

\* layer.find('wms:Name', ns)
FindName(layer) == First(Children(layer, "Name"))

\* layer.find('.//wms:LegendURL/wms:OnlineResource', ns)
FindLegendResource(layer) ==
    First(ChildrenOfAll(FindAll(layer, "LegendURL"), "OnlineResource"))

\* legend_url_elem.get('{http://www.w3.org/1999/xlink}href')
GetHref(e) == IF e.href = Absent THEN None ELSE e.href

\* a loop that gives up at the first Layer of that name
RECURSIVE SearchFirstNamedOnly(_, _)
SearchFirstNamedOnly(layers, layer_name) ==
    IF layers = <<>> THEN None
    ELSE LET layer == Head(layers)
             name_elem == FindName(layer)
             legend_url_elem == FindLegendResource(layer)
         IN IF name_elem # <<>> /\ name_elem[1].text = layer_name
            THEN IF legend_url_elem # <<>> THEN GetHref(legend_url_elem[1]) ELSE None
            ELSE SearchFirstNamedOnly(Tail(layers), layer_name)

\* for layer in root.findall('.//wms:Layer', ns): ... return href; return None
RECURSIVE SearchLayers(_, _)
SearchLayers(layers, layer_name) ==
    IF layers = <<>> THEN None
    ELSE LET layer == Head(layers)
             name_elem == FindName(layer)
             legend_url_elem == FindLegendResource(layer)
         IN IF name_elem # <<>> /\ name_elem[1].text = layer_name
               /\ legend_url_elem # <<>>
            THEN GetHref(legend_url_elem[1])
            ELSE SearchLayers(Tail(layers), layer_name)

\* requests.get is called once, whatever follows
Raised(error) == [state |-> "raised", error |-> error, value |-> None, requests |-> 1]
Returned(value) == [state |-> "returned", error |-> None, value |-> value, requests |-> 1]

\* response.raise_for_status(): HTTPError for 4xx and 5xx
RaisesForStatus(status) == 400 <= status /\ status < 600

\* a fetch that swallows parse errors
GetGibsLegendUrlLenient(in) ==
    IF in.net = "down" THEN Raised("ConnectionError")
    ELSE IF RaisesForStatus(in.status) THEN Raised("HTTPError")
    ELSE IF ~in.body.wellFormed THEN Returned(None)
    ELSE Returned(SearchLayers(FindAll(in.body.root, "Layer"), in.layer_name))

\* get_gibs_legend_url(layer_name): requests.get, raise_for_status,
\* ET.fromstring, the search
GetGibsLegendUrl(in) ==
    IF in.net = "down" THEN Raised("ConnectionError")
    ELSE IF RaisesForStatus(in.status) THEN Raised("HTTPError")
    ELSE IF ~in.body.wellFormed THEN Raised("ParseError")
    ELSE Returned(SearchLayers(FindAll(in.body.root, "Layer"), in.layer_name))

(***************************************************************************)
(* The bounded capability documents                                        *)
(***************************************************************************)
Hrefs == {"http://example.com/legend.png", "http://example.com/other.png"}
\* what a Layer carries for a legend: no Style at all, a LegendURL without an
\* OnlineResource, an OnlineResource without href (Absent), or one with an href
NoLegend == "noLegend"
NoResource == "noResource"
\* the Layer elements of the bounded documents, [name, legend]: the queried
\* name X with every legend, another name, and a Layer without Name
LayerKinds ==
    {[name |-> "X", lg |-> lg] : lg \in {NoLegend, NoResource, Absent} \cup Hrefs}
    \cup {[name |-> "Y", lg |-> NoLegend],
          [name |-> "Y", lg |-> "http://example.com/other.png"],
          [name |-> Absent, lg |-> "http://example.com/legend.png"]}

StyleOf(lg) ==
    IF lg = NoLegend THEN <<>>
    ELSE <<Elem("Style", "", Absent,
               <<Elem("LegendURL", "", Absent,
                     IF lg = NoResource THEN <<>>
                     ELSE <<Elem("OnlineResource", "", lg, <<>>)>>)>>)>>

\* a Layer element: its Name (if any), its Style before or after its nested
\* Layers
LayerElem(name, lg, sub, styleLast) ==
    Elem("Layer", "", Absent,
         (IF name = Absent THEN <<>> ELSE <<Elem("Name", name, Absent, <<>>)>>)
         \o (IF styleLast THEN <<>> ELSE StyleOf(lg))
         \o sub
         \o (IF styleLast THEN StyleOf(lg) ELSE <<>>))

\* the nesting depths of n Layer elements listed in document order
ValidDepths(n) ==
    {dp \in [1..n -> 1..n] :
        /\ n > 0 => dp[1] = 1
        /\ \A i \in 1..(n - 1) : dp[i + 1] <= dp[i] + 1}

\* the last Layer of the subtree of Layer i, among Layers i..j
SubtreeEnd(dp, i, j) ==
    CHOOSE e \in i..j :
        /\ \A k \in (i + 1)..e : dp[k] > dp[i]
        /\ e < j => dp[e + 1] <= dp[i]

HasNested(dp, i) == i < Len(dp) /\ dp[i + 1] > dp[i]

\* the Layer elements i..j as a forest
RECURSIVE BuildForest(_, _, _, _, _)
BuildForest(kinds, dp, last, i, j) ==
    IF i > j THEN <<>>
    ELSE LET e == SubtreeEnd(dp, i, j)
         IN <<LayerElem(kinds[i].name, kinds[i].lg,
                        BuildForest(kinds, dp, last, i + 1, e), i \in last)>>
            \o BuildForest(kinds, dp, last, e + 1, j)

Document(forest) ==
    [wellFormed |-> TRUE,
     root |-> Elem("WMS_Capabilities", "", Absent,
                   <<Elem("Capability", "", Absent, forest)>>)]
Malformed == [wellFormed |-> FALSE, root |-> Elem("", "", Absent, <<>>)]

Statuses == {200, 300, 404, 500}
Queries == {"X"}

\* the answers that are not a 200 with a capability document
OtherAnswers ==
    {[layer_name |-> q, net |-> "down", status |-> 0, body |-> Malformed] : q \in Queries}
    \cup {[layer_name |-> q, net |-> "ok", status |-> s, body |-> b] :
             q \in Queries, s \in Statuses,
             b \in {Malformed, Document(<<>>),
                    Document(<<LayerElem("X", "http://example.com/legend.png", <<>>, FALSE)>>)}}

GibsInit ==
    /\ gibsOut = Pending
    /\ esriIn = None
    /\ esriOut = Pending
    /\ \/ gibsIn \in OtherAnswers
       \/ \E n \in 1..MaxLayers : \E dp \in ValidDepths(n) :
          \E kinds \in [1..n -> LayerKinds] :
          \E last \in SUBSET {i \in 1..n : HasNested(dp, i) /\ kinds[i].lg # NoLegend} :
          \E q \in Queries :
              gibsIn = [layer_name |-> q, net |-> "ok", status |-> 200,
                        body |-> Document(BuildForest(kinds, dp, last, 1, n))]

CallGetGibsLegendUrl ==
    /\ gibsOut.state = "pending"
    /\ gibsOut' = GetGibsLegendUrl(gibsIn)
    /\ UNCHANGED <<coordVars, stack, gibsIn, esriIn, esriOut>>

InitGibs == CoordInit /\ GibsInit

NextGibs == CallGetGibsLegendUrl

SpecGibs == InitGibs /\ [][NextGibs]_vars

(***************************************************************************)
(* ToggleableEsriLegend._build_legend_html                                 *)
(***************************************************************************)
\* number of elements of "layers", and of items of one "legend" list
MaxEsriLayers == 2
MaxItems == 2

\* dict.get(key, default); a dict is a record of the keys it has
Get(d, key, default) == IF key \in DOMAIN d THEN d[key] ELSE default

\* html = f'<b>{self.title}</b><br>'
TitlePiece(title) == [piece |-> "title", text |-> title]

\* html += f'<div ...><img src="data:{content_type};base64,{image_data}" .../>
\*           <span ...>{label}</span></div>'
EntryPiece(item) ==
    [piece |-> "entry",
     label |-> Get(item, "label", ""),
     image_data |-> Get(item, "imageData", ""),
     content_type |-> Get(item, "contentType", "image/png")]

\* for item in legend_items: html += ...
RECURSIVE AppendItems(_, _)
AppendItems(html, legend_items) ==
    IF legend_items = <<>> THEN html
    ELSE AppendItems(Append(html, EntryPiece(Head(legend_items))), Tail(legend_items))

\* a builder that shows the first layer that has a "legend" list
BuildLegendHtmlFirstWithLegend(legend_json, title) ==
    LET html == <<TitlePiece(title)>>
        layers == Get(legend_json, "layers", <<>>)
        having == {i \in 1..Len(layers) : "legend" \in DOMAIN layers[i]}
    IN IF having = {} THEN html
       ELSE AppendItems(html, layers[CHOOSE i \in having : \A j \in having : i <= j].legend)

\* _build_legend_html(self)
BuildLegendHtml(legend_json, title) ==
    LET html == <<TitlePiece(title)>>
    IN IF "layers" \in DOMAIN legend_json /\ Len(legend_json.layers) > 0
       THEN AppendItems(html, Get(legend_json.layers[1], "legend", <<>>))
       ELSE html

\* the bounded legend JSON: items with and without the three keys, layers
\* with and without "legend", a response with and without "layers"
Items ==
    {[url |-> "u1", label |-> "low", imageData |-> "AAAA", contentType |-> "image/jpeg"],
     [url |-> "u2", label |-> "high", imageData |-> "BBBB", contentType |-> "image/gif"],
     [url |-> "u3"]}
ItemLists == UNION {[1..k -> Items] : k \in 0..MaxItems}
LayerDicts ==
    {[layerId |-> 0]} \cup {[layerId |-> 0, legend |-> items] : items \in ItemLists}
LegendJsons ==
    {[error |-> "400"]}
    \cup {[layers |-> ls] : ls \in UNION {[1..n -> LayerDicts] : n \in 0..MaxEsriLayers}}
Titles == {"Legend"}

EsriInit ==
    /\ gibsIn = None
    /\ gibsOut = Pending
    /\ esriIn \in {[legend_json |-> j, title |-> t] : j \in LegendJsons, t \in Titles}
    /\ esriOut = Pending

\* self.legend_html = self._build_legend_html()
CallBuildLegendHtml ==
    /\ esriOut = Pending
    /\ esriOut' = [state |-> "built",
                   html |-> BuildLegendHtml(esriIn.legend_json, esriIn.title)]
    /\ UNCHANGED <<coordVars, stack, gibsIn, gibsOut, esriIn>>

InitEsri == CoordInit /\ EsriInit

NextEsri == CallBuildLegendHtml

SpecEsri == InitEsri /\ [][NextEsri]_vars

(***************************************************************************)
(* Properties of the legend coordinator                                    *)
(***************************************************************************)
Ids == 1..Len(legends)
Visible == {i \in Ids : isOnMap[i]}
VisibleBefore == {i \in Ids : before[i]}
BoundTo(layer) == {i \in Ids : legends[i].layer = layer}
AfterEvent == lastEvent.type \in {"layeradd", "layerremove"}
AfterAdd == lastEvent.type = "layeradd"
AfterRemove == lastEvent.type = "layerremove"
Rose == {i \in Ids : ~before[i] /\ isOnMap[i]}
Fell == {i \in Ids : before[i] /\ ~isOnMap[i]}
Called(op) == {calls[c][2] : c \in {d \in 1..Len(calls) : calls[d][1] = op}}
Last(S) == CHOOSE i \in S : \A j \in S : j <= i

\* C1: after every event, at most one legend of the three registries has
\* _isOnMap true.
AtMostOneVisible == Cardinality(Visible) <= 1

OneRiseOneFall ==
    AfterAdd =>
        \A n, o \in Ids :
            (n # o /\ BoundTo(lastEvent.layer) = {n} /\ VisibleBefore = {o})
                => (Rose = {n} /\ Fell = {o})

\* C4 (as stated): a layerremove for the layer of a visible legend clears and
\* detaches it; a layerremove for the layer of a legend that is not visible
\* changes no flag and calls remove() on nothing.
RemoveOfHiddenLegendIsNoOp ==
    AfterRemove =>
        \A i \in BoundTo(lastEvent.layer) :
            IF before[i]
            THEN ~isOnMap[i] /\ ~attached[i] /\ i \in Called("remove")
            ELSE isOnMap = before /\ calls = <<>>

\* C4 (amended): a layerremove clears and detaches every visible legend bound
\* to its layer; when no legend bound to the layer is visible it changes no
\* flag and makes no call.
RemoveClearsOnlyVisibleOfLayer ==
    AfterRemove =>
        /\ \A i \in BoundTo(lastEvent.layer) :
               before[i] => ~isOnMap[i] /\ ~attached[i] /\ i \in Called("remove")
        /\ (BoundTo(lastEvent.layer) \cap VisibleBefore = {})
               => (isOnMap = before /\ calls = <<>>)

\* a layerremove for the layer of a hidden legend, while another legend shows
C4Witness ==
    /\ AfterRemove
    /\ BoundTo(lastEvent.layer) # {}
    /\ BoundTo(lastEvent.layer) \cap VisibleBefore = {}
    /\ Visible # {}

\* C5: after a layeradd for a layer with a legend, a second layeradd for the
\* same layer leaves the same flags, and exactly one legend is visible.
ReAddIsIdempotentWithOneVisible ==
    (AfterAdd /\ BoundTo(lastEvent.layer) # {}) =>
        /\ Fire(Now, "layeradd", lastEvent.layer).isOnMap = isOnMap
        /\ Cardinality(Visible) = 1

\* C6: in a layeradd handler entered with at most one visible legend, no
\* state up to and including the one its last statement leaves has two flags
\* true.
NoTwoVisibleInsideHandler ==
    (stack # <<>> /\ Top.type = "layeradd"
     /\ Cardinality({i \in Ids : Top.entry[i]}) <= 1)
        => Cardinality(Visible) <= 1

\* C7: an event for a layer that no registered legend is bound to changes no
\* flag and makes no addTo or remove call.
UnboundLayerEventIsNoOp ==
    (AfterEvent /\ BoundTo(lastEvent.layer) = {}) =>
        /\ isOnMap = before
        /\ calls = <<>>

\* an event for a legend-less layer while a legend is visible
C7Witness ==
    /\ AfterEvent
    /\ BoundTo(lastEvent.layer) = {}
    /\ Visible # {}

(***************************************************************************)
(* Properties of get_gibs_legend_url                                       *)
(***************************************************************************)
Called200 ==
    /\ gibsOut.state # "pending"
    /\ gibsIn.net = "ok" /\ gibsIn.status = 200 /\ gibsIn.body.wellFormed
DocLayers == FindAll(gibsIn.body.root, "Layer")
Carries(layer, name) ==
    \E i \in 1..Len(layer.kids) :
        layer.kids[i].tag = "Name" /\ layer.kids[i].text = name
\* the OnlineResource elements of the LegendURLs of the Layer's own Styles
OwnResources(layer) ==
    ChildrenOfAll(ChildrenOfAll(Children(layer, "Style"), "LegendURL"), "OnlineResource")
\* the OnlineResource elements of every LegendURL beneath the Layer
ResourcesBeneath(layer) ==
    ChildrenOfAll(FindAll(layer, "LegendURL"), "OnlineResource")
HrefsIn(resources) ==
    {resources[i].href : i \in {j \in 1..Len(resources) : resources[j].href # Absent}}
NamedLayers == {i \in 1..Len(DocLayers) : Carries(DocLayers[i], gibsIn.layer_name)}

\* C8 (as stated): the result is exactly the href h of a Layer of that name
\* that has a LegendURL/OnlineResource href h, and None when no Layer carries
\* the name.
LegendUrlIsTheHrefOfTheNamedLayer ==
    Called200 =>
        /\ gibsOut.state = "returned"
        /\ \A i \in NamedLayers : \A h \in HrefsIn(OwnResources(DocLayers[i])) :
               gibsOut.value = h
        /\ NamedLayers = {} => gibsOut.value = None

\* C8 (amended): the result is the href of the first LegendURL/OnlineResource
\* (document order, nested Layers included) beneath the first Layer, in
\* document order, that carries the name and has such an element, None when
\* that element has no href; None when no Layer carrying the name has one.
LegendUrlIsTheFirstHrefOfTheFirstNamedLayer ==
    Called200 =>
        /\ gibsOut.state = "returned"
        /\ LET cand == {i \in NamedLayers : ResourcesBeneath(DocLayers[i]) # <<>>}
           IN IF cand = {} THEN gibsOut.value = None
              ELSE LET first == CHOOSE i \in cand : \A j \in cand : i <= j
                       res == ResourcesBeneath(DocLayers[first])[1]
                   IN gibsOut.value = (IF res.href = Absent THEN None ELSE res.href)

\* the first Layer of that name has no legend, a later one has: its href is
\* the result
C8Witness ==
    /\ Called200
    /\ gibsOut.value \in Hrefs
    /\ \E i, j \in NamedLayers :
           /\ i < j /\ \A k \in NamedLayers : i <= k
           /\ ResourcesBeneath(DocLayers[i]) = <<>>
           /\ gibsOut.value \in HrefsIn(OwnResources(DocLayers[j]))

Answered == gibsOut.state # "pending"
NoNamedHref ==
    \A i \in NamedLayers : HrefsIn(ResourcesBeneath(DocLayers[i])) = {}

Built == esriOut.state = "built"
EntriesOf(html) == SelectSeq(html, LAMBDA p : p.piece = "entry")
JsonLayers == Get(esriIn.legend_json, "layers", <<>>)
RECURSIVE ItemsFrom(_, _)
ItemsFrom(layers, i) ==
    IF i > Len(layers) THEN <<>>
    ELSE Get(layers[i], "legend", <<>>) \o ItemsFrom(layers, i + 1)
\* every item of the legend JSON, in input order
AllItems == ItemsFrom(JsonLayers, 1)
Shows(entry, item) ==
    /\ "label" \in DOMAIN item => entry.label = item.label
    /\ "imageData" \in DOMAIN item => entry.image_data = item.imageData
    /\ "contentType" \in DOMAIN item => entry.content_type = item.contentType

\* C10: the fragment has exactly one image+label entry per item of the
\* legend JSON, in input order.
OneEntryPerItemInOrder ==
    Built =>
        LET entries == EntriesOf(esriOut.html)
        IN /\ Len(entries) = Len(AllItems)
           /\ \A k \in 1..Len(entries) : Shows(entries[k], AllItems[k])

\* the "legend" list the builder reads: that of the first layer, if any
FirstLegend ==
    IF JsonLayers = <<>> THEN <<>> ELSE Get(JsonLayers[1], "legend", <<>>)
MissingList ==
    \/ "layers" \notin DOMAIN esriIn.legend_json
    \/ Len(esriIn.legend_json.layers) = 0
    \/ "legend" \notin DOMAIN esriIn.legend_json.layers[1]

\* C11: legend JSON lacking "layers", with an empty "layers", or whose first
\* layer lacks "legend" builds a fragment with the title and zero entries;
\* an item lacking label, imageData or contentType is shown with the
\* defaults "", "" and "image/png"; the builder always returns a fragment.
MissingKeysGiveNoEntriesOrDefaults ==
    esriOut # Pending =>
        /\ Built
        /\ MissingList => esriOut.html = <<TitlePiece(esriIn.title)>>
        /\ LET entries == EntriesOf(esriOut.html)
           IN /\ Len(entries) = Len(FirstLegend)
              /\ \A k \in 1..Len(entries) :
                    /\ "label" \notin DOMAIN FirstLegend[k] => entries[k].label = ""
                    /\ "imageData" \notin DOMAIN FirstLegend[k]
                           => entries[k].image_data = ""
                    /\ "contentType" \notin DOMAIN FirstLegend[k]
                           => entries[k].content_type = "image/png"

\* a first layer without "legend" followed by a layer that has items
C11Witness ==
    /\ Built
    /\ Len(JsonLayers) = 2
    /\ "legend" \notin DOMAIN JsonLayers[1]
    /\ "legend" \in DOMAIN JsonLayers[2] /\ Len(JsonLayers[2].legend) > 0
    /\ EntriesOf(esriOut.html) = <<>>

(***************************************************************************)
(* Further properties of the legend coordinator                           *)
(***************************************************************************)
\* C12: when the layeradd handler of a legend X has run for X's layer (the
\* last handler the event runs), X is flagged and attached and every other
\* legend of every registry is unflagged and detached.
AddedLegendIsTheOnlyOneVisible ==
    (AfterAdd /\ BoundTo(lastEvent.layer) # {}) =>
        LET x == Last(BoundTo(lastEvent.layer))
        IN /\ isOnMap[x] /\ attached[x]
           /\ \A y \in Ids \ {x} : ~isOnMap[y] /\ ~attached[y]

\* C13: when a layeradd observer completes after the host fired layeradd
\* for another legend's layer from inside it, at most one legend has
\* _isOnMap true.
AtMostOneVisibleAfterNestedAdd ==
    (stack # <<>> /\ Top.type = "layeradd" /\ Top.phase = "guard" /\ Top.nested)
        => Cardinality(Visible) <= 1

\* the same on a page that holds GIBS legends only, whose observers scan all
\* three registries
AtMostOneVisibleAfterNestedAddGibsOnly ==
    (\A i \in Ids : legends[i].kind = "gibs") => AtMostOneVisibleAfterNestedAdd

CountCalls(cs, op, id) == Cardinality({c \in 1..Len(cs) : cs[c] = <<op, id>>})
\* the newest legend has one layeradd and one layerremove observer: a
\* layeradd of its layer calls its addTo once, a layerremove after that its
\* remove once
NewestObservesOnce ==
    LET id == Len(legends)
        layer == legends[id].layer
        added == Fire(Now, "layeradd", layer)
        removed == Fire(added, "layerremove", layer)
    IN /\ CountCalls(added.calls, "addTo", id) = 1
       /\ CountCalls(removed.calls, "remove", id) = 1
\* the entries of a registry that hold legend id
EntriesFor(k, id) ==
    IF registry[k] = Undefined THEN {}
    ELSE {e \in 1..Len(registry[k]) : registry[k][e].legend = id}

\* C14: every registered legend has, at all times, the one entry
\* {legend, layer} it was registered with, under its name and in the registry
\* of its own class only; right after a registration the new legend is
\* unflagged and detached with one observer per event type and every other
\* flag is as it was; as long as no layeradd has been fired, no legend is
\* visible.
RegisterAddsOneHiddenEntry ==
    /\ \A i \in Ids :
          /\ \A k \in Kinds \ {legends[i].kind} : EntriesFor(k, i) = {}
          /\ \E e \in EntriesFor(legends[i].kind, i) :
                 /\ EntriesFor(legends[i].kind, i) = {e}
                 /\ registry[legends[i].kind][e] =
                        [key |-> legends[i].name, legend |-> i, layer |-> legends[i].layer]
    /\ lastEvent.type = "register" =>
          /\ isOnMap = Append(before, FALSE)
          /\ ~attached[Len(legends)]
          /\ NewestObservesOnce
    /\ lastAdded.layer = NoLayer => Visible = {}

\* a second legend of a class was registered while a legend was visible
C14Witness ==
    /\ lastEvent.type = "register"
    /\ Visible # {}
    /\ Len(registry[legends[Len(legends)].kind]) >= 2

\* C15: a layeradd observer that reaches a for..in loop over a registry that
\* no script has created reaches it behind a typeof test; the loops it runs
\* without a test are over the registry of its own class, which its own
\* script created.
UnguardedLoopsReadOwnRegistry ==
    /\ \A i \in Ids :
          {ScanOrder(legends[i].kind)[j] : j \in 1..Len(ScanOrder(legends[i].kind))}
              \ Guarded(legends[i].kind) = {legends[i].kind}
    /\ (At("scan") /\ Top.j <= Len(ScanOf(Top)) /\ PartOf(Top) = Undefined)
           => ScanOf(Top)[Top.j] \in Guarded(legends[Running].kind)

\* the observer of an ESRI legend skips the missing colorbar registry
C15Witness ==
    /\ At("scan") /\ Top.j <= Len(ScanOf(Top))
    /\ PartOf(Top) = Undefined
    /\ legends[Running].kind = "esri"

VisibleOf(k) == {i \in Visible : legends[i].kind = k}

\* C16: after every event, each of the three registries holds at most one
\* legend with _isOnMap true.
AtMostOneVisiblePerRegistry ==
    \A k \in Kinds : Cardinality(VisibleOf(k)) <= 1

\* two legends of one class share the layer that was added: one of them is
\* visible
C16Witness ==
    /\ AfterAdd
    /\ \E i, j \in BoundTo(lastEvent.layer) :
          /\ i # j /\ legends[i].kind = legends[j].kind
          /\ Cardinality(VisibleOf(legends[i].kind)) = 1

\* C17: a layerremove sets no flag; and when the layer added last has been
\* removed (and nothing added since) while another layer with a legend is
\* still on the map, no legend is visible.
RemoveNeverShowsAndLeavesNoneVisible ==
    AfterRemove =>
        /\ Rose = {}
        /\ (/\ lastAdded.layer = lastEvent.layer
            /\ BoundTo(lastEvent.layer) # {}
            /\ \E a \in Layers \ {lastEvent.layer} : present[a] /\ BoundTo(a) # {})
               => Visible = {}

\* the first half alone
RemoveNeverShows == AfterRemove => Rose = {}

\* the flags that the calls of the last event produce from the flags before
\* it, and whether every remove met a flagged legend
RECURSIVE Replay(_, _, _)
Replay(flags, ok, c) ==
    IF c > Len(calls) THEN [flags |-> flags, ok |-> ok]
    ELSE LET op == calls[c][1]
             id == calls[c][2]
         IN IF op = "remove"
            THEN Replay([flags EXCEPT ![id] = FALSE], ok /\ flags[id], c + 1)
            ELSE Replay([flags EXCEPT ![id] = TRUE], ok, c + 1)

\* C18: after every event a legend's _isOnMap is true exactly when the
\* control is attached; the flags after the event are those the event's
\* addTo and remove calls produce (each addTo sets, each remove clears), and
\* every remove was called on a legend whose flag was true.
FlagIsAttachment ==
    /\ isOnMap = attached
    /\ AfterEvent =>
          LET r == Replay(before, TRUE, 1)
          IN r.ok /\ r.flags = isOnMap

\* a layeradd that replaced the visible legend: one remove, one addTo
C18Witness ==
    /\ AfterAdd
    /\ Called("remove") # {} /\ Called("addTo") # {}
    /\ Called("remove") \cap Called("addTo") = {}
    /\ isOnMap = attached

EntryCount(k) == IF registry[k] = Undefined THEN 0 ELSE Len(registry[k])

\* C19: no step lowers a class counter; after every step no two legends have
\* the same legend_var_name and the registries hold one entry per legend
\* (no registration replaced an entry).
CountersGrowAndNamesDiffer ==
    [][/\ \A k \in Kinds : counter'[k] >= counter[k]
       /\ (\A i, j \in Ids : i # j => legends[i].name # legends[j].name)'
       /\ (EntryCount("colorbar") + EntryCount("esri") + EntryCount("gibs")
               = Len(legends))'
      ]_vars

\* two legends of one class and one of another
C19Witness ==
    /\ Len(legends) = 3
    /\ \E k \in Kinds : counter[k] = 2 /\ EntryCount(k) = 2
    /\ \A i, j \in Ids : i # j => legends[i].name # legends[j].name

====
